---- MODULE Spec2Model ----
(***************************************************************************)
(* State-machine model of the serverless handlers of this repository:      *)
(*   - the Zoom registration handler, Server-to-Server OAuth variant       *)
(*     (src/api/register-zoom.js),                                          *)
(*   - the Zoom registration handler, static-token variant                 *)
(*     (src/unnamed/part_000, lines 27-134),                                *)
(*   - the Zoho relay (src/unnamed/part_000, lines 1-25).                   *)
(* One behaviour is one request.  A handler runs atomically between two    *)
(* awaits; every action below is one such segment: it consumes the result  *)
(* of the awaited upstream call (chosen by the environment) and runs the   *)
(* code up to the next outbound call or to the response.                   *)
(*                                                                         *)
(* Strings that the code takes apart (fullName, occurrence ids, query      *)
(* values) are sequences of one-character strings.  JavaScript numbers are *)
(* records so that NaN and Infinity are values of the same kind as the     *)
(* finite numbers.  Timestamps are milliseconds counted from               *)
(* 2024-05-01T00:00:00Z instead of 1970-01-01T00:00:00Z; the code only     *)
(* subtracts them, and a difference does not depend on the origin.         *)
(***************************************************************************)
EXTENDS Integers, Sequences, FiniteSets, TLC

VARIABLES handler, req, env, pc, calls, occurrences, targetTime,
          bestOccurrence, bestDiff, first_name, last_name, res

vars == <<handler, req, env, pc, calls, occurrences, targetTime,
          bestOccurrence, bestDiff, first_name, last_name, res>>

(* ------------------------------ bounds --------------------------------- *)

MaxOccurrences == 3
MaxNameLen == 3

(* ------------------------ JavaScript numbers --------------------------- *)

NaN == [k |-> "NaN", v |-> 0]
Infinity == [k |-> "Infinity", v |-> 0]
Num(n) == [k |-> "num", v |-> n]

IsFinite(x) == x.k = "num"

\* a - b; the handlers only subtract results of getTime(), never Infinity
Sub(a, b) == IF a.k = "num" /\ b.k = "num" THEN Num(a.v - b.v) ELSE NaN

MathAbs(a) == IF a.k = "num" THEN Num(IF a.v < 0 THEN 0 - a.v ELSE a.v) ELSE a

\* a < b; every comparison with NaN is false
Lt(a, b) ==
  IF a.k = "NaN" \/ b.k = "NaN" THEN FALSE
  ELSE IF a.k = "Infinity" THEN FALSE
  ELSE IF b.k = "Infinity" THEN TRUE
  ELSE a.v < b.v

Gt(a, b) == Lt(b, a)

\* a >= b
Ge(a, b) == a.k # "NaN" /\ b.k # "NaN" /\ (Lt(b, a) \/ a = b)

(* ---------------------- new Date(s).getTime() -------------------------- *)

DateGetTime(s) ==
  CASE s = "2024-05-01T09:59:00Z" -> Num(35940000)
    [] s = "2024-05-01T10:00:00Z" -> Num(36000000)
    [] s = "2024-05-01T10:01:00Z" -> Num(36060000)
    [] s = "2024-05-01T16:00:00Z" -> Num(57600000)
    [] s = "2024-05-01T16:00:01Z" -> Num(57601000)
    [] s = "2024-05-02T10:00:00Z" -> Num(122400000)
    [] OTHER -> NaN

MAX_DIFF_MS == 6 * 60 * 60 * 1000

(* --------------------------- name splitting ---------------------------- *)

WhiteSpace == {" ", "\t"}

RECURSIVE TrimLeft(_)
TrimLeft(s) ==
  IF s = <<>> THEN <<>>
  ELSE IF Head(s) \in WhiteSpace THEN TrimLeft(Tail(s)) ELSE s

RECURSIVE TrimRight(_)
TrimRight(s) ==
  IF s = <<>> THEN <<>>
  ELSE IF s[Len(s)] \in WhiteSpace THEN TrimRight(SubSeq(s, 1, Len(s) - 1)) ELSE s

\* String.prototype.trim
Trim(s) == TrimRight(TrimLeft(s))

\* s.split(/\s+/): every maximal run of whitespace is one separator; a
\* separator at either end leaves an empty string there, and "" gives [""].
RECURSIVE SplitWS(_, _, _)
SplitWS(s, cur, inSep) ==
  IF s = <<>> THEN <<cur>>
  ELSE IF Head(s) \in WhiteSpace
       THEN IF inSep THEN SplitWS(Tail(s), cur, TRUE)
            ELSE <<cur>> \o SplitWS(Tail(s), <<>>, TRUE)
       ELSE SplitWS(Tail(s), Append(cur, Head(s)), FALSE)

Split(s) == SplitWS(s, <<>>, FALSE)

\* parts.join(' ')
RECURSIVE JoinSpace(_)
JoinSpace(parts) ==
  IF parts = <<>> THEN <<>>
  ELSE IF Len(parts) = 1 THEN parts[1]
  ELSE parts[1] \o <<" ">> \o JoinSpace(Tail(parts))

nameParts_noTrim(fullName) == Split(fullName)

\* const nameParts = String(fullName).trim().split(/\s+/)
nameParts(fullName) == Split(Trim(fullName))

\* nameParts[0] || ''
FirstName(fullName) == nameParts(fullName)[1]

\* nameParts.slice(1).join(' ') || ''
LastName(fullName) == JoinSpace(Tail(nameParts(fullName)))

(* ------------------------- occurrence matching ------------------------- *)

NoMatch == [bestOccurrence |-> 0, bestDiff |-> Infinity]

\* the loop of the OAuth variant with "<=" in place of "<"
RECURSIVE OAuthMatchLoop_lastWins(_, _, _, _)
OAuthMatchLoop_lastWins(occs, target, i, best) ==
  IF i > Len(occs) THEN best
  ELSE LET occTime == DateGetTime(occs[i].start_time)
           diff == MathAbs(Sub(occTime, target))
       IN IF ~IsFinite(occTime) THEN OAuthMatchLoop_lastWins(occs, target, i + 1, best)
          ELSE IF ~Lt(best.bestDiff, diff)
               THEN OAuthMatchLoop_lastWins(occs, target, i + 1,
                       [bestOccurrence |-> i, bestDiff |-> diff])
               ELSE OAuthMatchLoop_lastWins(occs, target, i + 1, best)

\* for (const occ of occurrences) { ... } of the OAuth variant; best is the
\* pair (bestOccurrence, bestDiff), bestOccurrence being the position of the
\* referenced occurrence in the list and 0 for null
RECURSIVE OAuthMatchLoop(_, _, _, _)
OAuthMatchLoop(occs, target, i, best) ==
  IF i > Len(occs) THEN best
  ELSE LET occTime == DateGetTime(occs[i].start_time)
           diff == MathAbs(Sub(occTime, target))
       IN IF ~IsFinite(occTime) THEN OAuthMatchLoop(occs, target, i + 1, best)
          ELSE IF Lt(diff, best.bestDiff)
               THEN OAuthMatchLoop(occs, target, i + 1,
                       [bestOccurrence |-> i, bestDiff |-> diff])
               ELSE OAuthMatchLoop(occs, target, i + 1, best)

\* the loop of the static-token variant with "!(diff >= bestDiff)" in place
\* of "diff < bestDiff"
RECURSIVE StaticMatchLoop_notGe(_, _, _, _)
StaticMatchLoop_notGe(occs, target, i, best) ==
  IF i > Len(occs) THEN best
  ELSE LET occTime == DateGetTime(occs[i].start_time)
           diff == MathAbs(Sub(occTime, target))
       IN IF ~Ge(diff, best.bestDiff)
          THEN StaticMatchLoop_notGe(occs, target, i + 1,
                  [bestOccurrence |-> i, bestDiff |-> diff])
          ELSE StaticMatchLoop_notGe(occs, target, i + 1, best)

\* for (const occ of occurrences) { ... } of the static-token variant: no
\* test of occTime, the comparison with NaN does the skipping
RECURSIVE StaticMatchLoop(_, _, _, _)
StaticMatchLoop(occs, target, i, best) ==
  IF i > Len(occs) THEN best
  ELSE LET occTime == DateGetTime(occs[i].start_time)
           diff == MathAbs(Sub(occTime, target))
       IN IF Lt(diff, best.bestDiff)
          THEN StaticMatchLoop(occs, target, i + 1,
                  [bestOccurrence |-> i, bestDiff |-> diff])
          ELSE StaticMatchLoop(occs, target, i + 1, best)

(* --------------------------- URL construction -------------------------- *)

Unreserved == {"0", "1", "2", "3", "4", "5", "6", "7", "8", "9"}

PercentEncode(c) ==
  CASE c = "&" -> <<"%", "2", "6">>
    [] c = "=" -> <<"%", "3", "D">>
    [] c = " " -> <<"%", "2", "0">>
    [] OTHER -> <<c>>

\* encodeURIComponent
RECURSIVE encodeURIComponent(_)
encodeURIComponent(s) ==
  IF s = <<>> THEN <<>>
  ELSE (IF Head(s) \in Unreserved THEN <<Head(s)>> ELSE PercentEncode(Head(s)))
       \o encodeURIComponent(Tail(s))

NoQuery == [present |-> FALSE, value |-> <<>>]

OAuthRegQuery_never(occs, best) == NoQuery

\* if (bestOccurrence && bestOccurrence.occurrence_id) regUrl += `?occurrence_ids=${encodeURIComponent(...)}`
OAuthRegQuery(occs, best) ==
  IF best # 0 /\ occs[best].occurrence_id # <<>>
  THEN [present |-> TRUE, value |-> encodeURIComponent(occs[best].occurrence_id)]
  ELSE NoQuery

\* if (bestOccurrence) regUrl += `?occurrence_ids=${bestOccurrence.occurrence_id}`
StaticRegQuery(occs, best) ==
  IF best # 0
  THEN [present |-> TRUE, value |-> occs[best].occurrence_id]
  ELSE NoQuery

(* ------------------------------ the state ------------------------------ *)

AnnLee == <<"A", "n", "n", " ", "L", "e", "e">>
Solo == <<"S", "o", "l", "o">>
JaneQPublic == <<"J", "a", "n", "e", " ", "Q", " ", "P", "u", "b", "l", "i", "c">>

Methods == {"POST", "GET"}
Names == {<<>>, AnnLee}
Emails == {"", "a@x.com"}
Roles == {"", "Coach"}
Sessions == {"", "2024-05-01T10:00:00Z", "not-a-date"}

\* what the provider returns in meetingData.occurrences: ids are strings of
\* decimal digits, start times are ISO-8601 strings or text that does not parse
OccurrencePool ==
  { [occurrence_id |-> <<"1">>, start_time |-> "2024-05-01T09:59:00Z"],
    [occurrence_id |-> <<"2">>, start_time |-> "2024-05-01T10:01:00Z"],
    [occurrence_id |-> <<"3">>, start_time |-> "2024-05-01T16:00:00Z"],
    [occurrence_id |-> <<"4">>, start_time |-> "2024-05-01T16:00:01Z"],
    [occurrence_id |-> <<"5">>, start_time |-> "2024-05-02T10:00:00Z"],
    [occurrence_id |-> <<"6">>, start_time |-> "TBD"] }

OccurrenceLists == UNION { [1..n -> OccurrencePool] : n \in 0..MaxOccurrences }

\* meetingData: the occurrences property may be absent
MeetingData ==
  { [has |-> FALSE, list |-> <<>>] } \cup { [has |-> TRUE, list |-> l] : l \in OccurrenceLists }

EnvVars(h) ==
  CASE h = "oauth" -> {"ZOOM_MEETING_ID", "ZOOM_ACCOUNT_ID", "ZOOM_CLIENT_ID", "ZOOM_CLIENT_SECRET"}
    [] h = "static" -> {"ZOOM_MEETING_ID", "ZOOM_ACCESS_TOKEN"}
    [] h = "zoho" -> {"ZOHO_URL"}

\* the outcomes of one awaited fetch together with the reading of its body:
\* fetch rejects, the status is not 2xx, the status is 2xx and .json() rejects,
\* the status is 2xx and the body parses
FetchResults == {"throw", "notok", "ok_badjson", "ok"}
TokenResults == FetchResults \cup {"ok_notoken"}
ZohoResults == {"throw", "200", "200_empty", "500"}

NoBody == [email |-> "", first_name |-> <<>>, last_name |-> <<>>, role |-> ""]

Call(to, query, body) == [to |-> to, query |-> query, body |-> body, result |-> "pending"]

\* the last call of the log with its result filled in
Returned(log, result) == [log EXCEPT ![Len(log)].result = result]

NoRes == [status |-> 0, success |-> FALSE, error |-> "", occurrence_id |-> <<>>, text |-> ""]

Json(status, success, error, occurrence_id) ==
  [status |-> status, success |-> success, error |-> error,
   occurrence_id |-> occurrence_id, text |-> ""]

MissingFields == "Missing required fields: fullName, email, sessionTimeSelected"

Requests ==
  { r \in [method : Methods, hasBody : BOOLEAN, fullName : Names, email : Emails,
           role : Roles, sessionTimeSelected : Sessions] :
      ~r.hasBody => (r.fullName = <<>> /\ r.email = "" /\ r.role = "" /\ r.sessionTimeSelected = "") }

Init ==
  /\ handler \in {"oauth", "static", "zoho"}
  /\ req \in Requests
  /\ env \in SUBSET EnvVars(handler)
  /\ pc = "start"
  /\ calls = <<>>
  /\ occurrences = <<>>
  /\ targetTime = NaN
  /\ bestOccurrence = 0
  /\ bestDiff = Infinity
  /\ first_name = <<>>
  /\ last_name = <<>>
  /\ res = NoRes

Reply(r) == res' = r /\ pc' = "done"

Locals == <<occurrences, targetTime, bestOccurrence, bestDiff>>

(* ------------------- Zoom registration, OAuth variant ------------------ *)

\* OAuthEntry without the test of req.method
OAuthEntry_noMethodCheck ==
  /\ pc = "start" /\ handler = "oauth"
  /\ IF req.fullName = <<>> \/ req.email = "" \/ req.sessionTimeSelected = ""
     THEN /\ Reply(Json(400, FALSE, MissingFields, <<>>))
          /\ UNCHANGED <<calls, first_name, last_name>>
     ELSE IF env # EnvVars("oauth")
     THEN /\ Reply(Json(500, FALSE, "Server configuration error", <<>>))
          /\ UNCHANGED <<calls, first_name, last_name>>
     ELSE /\ first_name' = FirstName(req.fullName)
          /\ last_name' = LastName(req.fullName)
          /\ calls' = <<Call("token", NoQuery, NoBody)>>
          /\ pc' = "awaitToken"
          /\ UNCHANGED res
  /\ UNCHANGED <<handler, req, env, Locals>>

\* lines 15-55 and 156-168: from the entry of the handler to the token request
OAuthEntry ==
  /\ pc = "start" /\ handler = "oauth"
  /\ IF req.method # "POST"
     THEN /\ Reply(Json(405, FALSE, "Method not allowed", <<>>))
          /\ UNCHANGED <<calls, first_name, last_name>>
     ELSE IF req.fullName = <<>> \/ req.email = "" \/ req.sessionTimeSelected = ""
     THEN /\ Reply(Json(400, FALSE, MissingFields, <<>>))
          /\ UNCHANGED <<calls, first_name, last_name>>
     ELSE IF env # EnvVars("oauth")
     THEN /\ Reply(Json(500, FALSE, "Server configuration error", <<>>))
          /\ UNCHANGED <<calls, first_name, last_name>>
     ELSE /\ first_name' = FirstName(req.fullName)
          /\ last_name' = LastName(req.fullName)
          /\ calls' = <<Call("token", NoQuery, NoBody)>>
          /\ pc' = "awaitToken"
          /\ UNCHANGED res
  /\ UNCHANGED <<handler, req, env, Locals>>

TokenError(result) ==
  CASE result = "throw" -> "fetch failed"
    [] result = "notok" -> "Zoom token error"
    [] result = "ok_badjson" -> "Unexpected token"
    [] result = "ok_notoken" -> "Zoom token response missing access_token"

\* lines 170-181 and 51-60: getZoomAccessToken returns or throws; on a token
\* the meeting is fetched
OAuthTokenReturn ==
  /\ pc = "awaitToken" /\ handler = "oauth"
  /\ \E result \in TokenResults :
       IF result # "ok"
       THEN /\ calls' = Returned(calls, result)
            /\ Reply(Json(500, FALSE, TokenError(result), <<>>))
       ELSE /\ calls' = Append(Returned(calls, result), Call("meeting", NoQuery, NoBody))
            /\ pc' = "awaitMeeting"
            /\ UNCHANGED res
  /\ UNCHANGED <<handler, req, env, first_name, last_name, Locals>>

\* const occurrences = Array.isArray(meetingData.occurrences) ? meetingData.occurrences : []
OAuthOccurrences(md) == IF md.has THEN md.list ELSE <<>>

RegBody == [email |-> req.email, first_name |-> first_name, last_name |-> last_name, role |-> req.role]

\* OAuthMeetingReturn without the test of meetingRes.ok: the body of an error
\* response is read as meeting data
OAuthMeetingReturn_noOkCheck ==
  /\ pc = "awaitMeeting" /\ handler = "oauth"
  /\ \E result \in FetchResults, md \in MeetingData :
       LET occs == OAuthOccurrences(md)
           target == DateGetTime(req.sessionTimeSelected)
           best == OAuthMatchLoop(occs, target, 1, NoMatch)
       IN
       IF result = "throw"
       THEN /\ calls' = Returned(calls, result)
            /\ Reply(Json(500, FALSE, "fetch failed", <<>>))
            /\ UNCHANGED Locals
       ELSE IF result = "ok_badjson"
       THEN /\ calls' = Returned(calls, result)
            /\ Reply(Json(500, FALSE, "Unexpected token", <<>>))
            /\ UNCHANGED Locals
       ELSE /\ occurrences' = occs
            /\ targetTime' = target
            /\ IF ~IsFinite(target)
               THEN /\ calls' = Returned(calls, result)
                    /\ Reply(Json(400, FALSE, "Invalid sessionTimeSelected timestamp", <<>>))
                    /\ UNCHANGED <<bestOccurrence, bestDiff>>
               ELSE /\ bestOccurrence' = best.bestOccurrence
                    /\ bestDiff' = best.bestDiff
                    /\ IF best.bestOccurrence # 0 /\ Gt(best.bestDiff, Num(MAX_DIFF_MS))
                       THEN /\ calls' = Returned(calls, result)
                            /\ Reply(Json(400, FALSE,
                                 "Selected session time does not match any Zoom occurrence", <<>>))
                       ELSE /\ calls' = Append(Returned(calls, result),
                                   Call("register", OAuthRegQuery(occs, best.bestOccurrence), RegBody))
                            /\ pc' = "awaitRegister"
                            /\ UNCHANGED res
  /\ UNCHANGED <<handler, req, env, first_name, last_name>>

\* lines 58-132: the meeting response, the matching of the occurrence, the
\* guardrail, and the registration request
OAuthMeetingReturn ==
  /\ pc = "awaitMeeting" /\ handler = "oauth"
  /\ \E result \in FetchResults, md \in MeetingData :
       LET occs == OAuthOccurrences(md)
           target == DateGetTime(req.sessionTimeSelected)
           best == OAuthMatchLoop(occs, target, 1, NoMatch)
       IN
       IF result = "throw"
       THEN /\ calls' = Returned(calls, result)
            /\ Reply(Json(500, FALSE, "fetch failed", <<>>))
            /\ UNCHANGED Locals
       ELSE IF result = "notok"
       THEN /\ calls' = Returned(calls, result)
            /\ Reply(Json(500, FALSE, "Failed to fetch Zoom meeting details", <<>>))
            /\ UNCHANGED Locals
       ELSE IF result = "ok_badjson"
       THEN /\ calls' = Returned(calls, result)
            /\ Reply(Json(500, FALSE, "Unexpected token", <<>>))
            /\ UNCHANGED Locals
       ELSE /\ occurrences' = occs
            /\ targetTime' = target
            /\ IF ~IsFinite(target)
               THEN /\ calls' = Returned(calls, result)
                    /\ Reply(Json(400, FALSE, "Invalid sessionTimeSelected timestamp", <<>>))
                    /\ UNCHANGED <<bestOccurrence, bestDiff>>
               ELSE /\ bestOccurrence' = best.bestOccurrence
                    /\ bestDiff' = best.bestDiff
                    /\ IF best.bestOccurrence # 0 /\ Gt(best.bestDiff, Num(MAX_DIFF_MS))
                       THEN /\ calls' = Returned(calls, result)
                            /\ Reply(Json(400, FALSE,
                                 "Selected session time does not match any Zoom occurrence", <<>>))
                       ELSE /\ calls' = Append(Returned(calls, result),
                                   Call("register", OAuthRegQuery(occs, best.bestOccurrence), RegBody))
                            /\ pc' = "awaitRegister"
                            /\ UNCHANGED res
  /\ UNCHANGED <<handler, req, env, first_name, last_name>>

\* occurrence_id: bestOccurrence ? bestOccurrence.occurrence_id : ''
ReportedOccurrence(occs, best) == IF best # 0 THEN occs[best].occurrence_id ELSE <<>>

\* lines 134-153: the registration response
OAuthRegisterReturn ==
  /\ pc = "awaitRegister" /\ handler = "oauth"
  /\ \E result \in FetchResults :
       /\ calls' = Returned(calls, result)
       /\ IF result = "throw" THEN Reply(Json(500, FALSE, "fetch failed", <<>>))
          ELSE IF result = "notok" THEN Reply(Json(500, FALSE, "Zoom registration failed", <<>>))
          ELSE IF result = "ok_badjson" THEN Reply(Json(500, FALSE, "Unexpected token", <<>>))
          ELSE Reply(Json(200, TRUE, "", ReportedOccurrence(occurrences, bestOccurrence)))
  /\ UNCHANGED <<handler, req, env, first_name, last_name, Locals>>

(* --------------- Zoom registration, static-token variant --------------- *)

\* lines 31-64: from the entry of the handler to the meeting request;
\* destructuring req.body throws a TypeError when there is no body
StaticEntry ==
  /\ pc = "start" /\ handler = "static"
  /\ IF req.method # "POST"
     THEN /\ Reply(Json(405, FALSE, "Method not allowed", <<>>))
          /\ UNCHANGED <<calls, first_name, last_name>>
     ELSE IF ~req.hasBody
     THEN /\ Reply(Json(500, FALSE, "Cannot destructure property 'fullName' of 'req.body'", <<>>))
          /\ UNCHANGED <<calls, first_name, last_name>>
     ELSE IF req.fullName = <<>> \/ req.email = "" \/ req.sessionTimeSelected = ""
     THEN /\ Reply(Json(400, FALSE, MissingFields, <<>>))
          /\ UNCHANGED <<calls, first_name, last_name>>
     ELSE IF env # EnvVars("static")
     THEN /\ Reply(Json(500, FALSE, "Server configuration error", <<>>))
          /\ UNCHANGED <<calls, first_name, last_name>>
     ELSE /\ first_name' = FirstName(req.fullName)
          /\ last_name' = LastName(req.fullName)
          /\ calls' = <<Call("meeting", NoQuery, NoBody)>>
          /\ pc' = "awaitMeeting"
          /\ UNCHANGED res
  /\ UNCHANGED <<handler, req, env, Locals>>

\* const occurrences = meetingData.occurrences || []
StaticOccurrences(md) == IF md.has THEN md.list ELSE <<>>

\* lines 66-114: the meeting response, the matching of the occurrence and the
\* registration request; this variant tests neither targetTime nor bestDiff
StaticMeetingReturn ==
  /\ pc = "awaitMeeting" /\ handler = "static"
  /\ \E result \in FetchResults, md \in MeetingData :
       LET occs == StaticOccurrences(md)
           target == DateGetTime(req.sessionTimeSelected)
           best == StaticMatchLoop(occs, target, 1, NoMatch)
       IN
       IF result = "throw"
       THEN /\ calls' = Returned(calls, result)
            /\ Reply(Json(500, FALSE, "fetch failed", <<>>))
            /\ UNCHANGED Locals
       ELSE IF result = "notok"
       THEN /\ calls' = Returned(calls, result)
            /\ Reply(Json(500, FALSE, "Failed to fetch Zoom meeting details", <<>>))
            /\ UNCHANGED Locals
       ELSE IF result = "ok_badjson"
       THEN /\ calls' = Returned(calls, result)
            /\ Reply(Json(500, FALSE, "Unexpected token", <<>>))
            /\ UNCHANGED Locals
       ELSE /\ occurrences' = occs
            /\ targetTime' = target
            /\ bestOccurrence' = best.bestOccurrence
            /\ bestDiff' = best.bestDiff
            /\ calls' = Append(Returned(calls, result),
                   Call("register", StaticRegQuery(occs, best.bestOccurrence), RegBody))
            /\ pc' = "awaitRegister"
            /\ UNCHANGED res
  /\ UNCHANGED <<handler, req, env, first_name, last_name>>

\* occurrence_id: bestOccurrence ? bestOccurrence.occurrence_id : ''
StaticReportedOccurrence(occs, best) == IF best # 0 THEN occs[best].occurrence_id ELSE <<>>

\* lines 116-133: the registration response
StaticRegisterReturn ==
  /\ pc = "awaitRegister" /\ handler = "static"
  /\ \E result \in FetchResults :
       /\ calls' = Returned(calls, result)
       /\ IF result = "throw" THEN Reply(Json(500, FALSE, "fetch failed", <<>>))
          ELSE IF result = "notok" THEN Reply(Json(500, FALSE, "Zoom registration failed", <<>>))
          ELSE IF result = "ok_badjson" THEN Reply(Json(500, FALSE, "Unexpected token", <<>>))
          ELSE Reply(Json(200, TRUE, "", StaticReportedOccurrence(occurrences, bestOccurrence)))
  /\ UNCHANGED <<handler, req, env, first_name, last_name, Locals>>

(* ------------------------------ Zoho relay ----------------------------- *)

\* res.status(...).json({ error }) and res.status(r.status).send(text || "ok")
Relay(status, error, text) ==
  [status |-> status, success |-> FALSE, error |-> error, occurrence_id |-> <<>>, text |-> text]

\* lines 3-17: from the entry of the relay to the forwarding request
ZohoEntry ==
  /\ pc = "start" /\ handler = "zoho"
  /\ IF req.method # "POST"
     THEN Reply(Relay(405, "Method not allowed", "")) /\ UNCHANGED calls
     ELSE IF "ZOHO_URL" \notin env
     THEN Reply(Relay(500, "ZOHO_URL is not set", "")) /\ UNCHANGED calls
     ELSE /\ calls' = <<Call("zoho", NoQuery, NoBody)>>
          /\ pc' = "awaitZoho"
          /\ UNCHANGED res
  /\ UNCHANGED <<handler, req, env, first_name, last_name, Locals>>

\* lines 19-24: the webhook's status and text are passed through
ZohoForwardReturn ==
  /\ pc = "awaitZoho" /\ handler = "zoho"
  /\ \E result \in ZohoResults :
       /\ calls' = Returned(calls, result)
       /\ CASE result = "throw" -> Reply(Relay(500, "fetch failed", ""))
            [] result = "200" -> Reply(Relay(200, "", "received"))
            [] result = "200_empty" -> Reply(Relay(200, "", "ok"))
            [] result = "500" -> Reply(Relay(500, "", "webhook error"))
  /\ UNCHANGED <<handler, req, env, first_name, last_name, Locals>>

(* --------------------------- specifications ---------------------------- *)

Next ==
  \/ OAuthEntry
  \/ OAuthTokenReturn
  \/ OAuthMeetingReturn
  \/ OAuthRegisterReturn
  \/ StaticEntry
  \/ StaticMeetingReturn
  \/ StaticRegisterReturn
  \/ ZohoEntry
  \/ ZohoForwardReturn

Spec == Init /\ [][Next]_vars

\* the name-splitting step on its own: every short string over a small
\* alphabet with two whitespace characters, and the two names of the examples
NameAlphabet == {"J", "q", " ", "\t"}

AllNames == UNION { [1..n -> NameAlphabet] : n \in 0..MaxNameLen } \cup {JaneQPublic, Solo}

InitName ==
  /\ handler \in {"oauth", "static"}
  /\ req \in [method : {"POST"}, hasBody : {TRUE}, fullName : AllNames, email : {"a@x.com"},
              role : {""}, sessionTimeSelected : {"2024-05-01T10:00:00Z"}]
  /\ env = EnvVars(handler)
  /\ pc = "start"
  /\ calls = <<>>
  /\ occurrences = <<>>
  /\ targetTime = NaN
  /\ bestOccurrence = 0
  /\ bestDiff = Infinity
  /\ first_name = <<>>
  /\ last_name = <<>>
  /\ res = NoRes

NextName == OAuthEntry \/ StaticEntry

SpecName == InitName /\ [][NextName]_vars

(* ------------------------------- claims -------------------------------- *)

IsZoom == handler \in {"oauth", "static"}

HasCall(to) == \E i \in 1..Len(calls) : calls[i].to = to

MeetingOk == \E i \in 1..Len(calls) : calls[i].to = "meeting" /\ calls[i].result = "ok"

\* the matching loop has run in this request
Matched == MeetingOk /\ (handler = "static" \/ IsFinite(targetTime))

FieldsPresent == req.fullName # <<>> /\ req.email # "" /\ req.sessionTimeSelected # ""

\* the provider created a registrant: it answered the registration call with 2xx
RegistrantCreated ==
  \E i \in 1..Len(calls) : calls[i].to = "register" /\ calls[i].result \in {"ok", "ok_badjson"}

Parsable(occ) == IsFinite(DateGetTime(occ.start_time))

\* |start_time - target| of a parsable occurrence, as an integer
Distance(occ, target) == MathAbs(Sub(DateGetTime(occ.start_time), target)).v

\* the first position of the list at the least distance from the target, 0 for the empty list
ArgMinFirst(occs, target) ==
  IF occs = <<>> THEN 0
  ELSE CHOOSE i \in 1..Len(occs) :
         /\ \A j \in 1..Len(occs) : Distance(occs[i], target) <= Distance(occs[j], target)
         /\ \A j \in 1..(i - 1) : Distance(occs[j], target) > Distance(occs[i], target)

\* the list with its unparsable entries removed
RECURSIVE RemoveUnparsable(_)
RemoveUnparsable(occs) ==
  IF occs = <<>> THEN <<>>
  ELSE (IF Parsable(Head(occs)) THEN <<Head(occs)>> ELSE <<>>) \o RemoveUnparsable(Tail(occs))

\* the occurrence at a position, as a list of at most one element
At(occs, i) == IF i = 0 THEN <<>> ELSE <<occs[i]>>

\* C1: for an unparsable sessionTimeSelected the Zoom handler answers 400
\* before any upstream call: no token, meeting or registration request
C1_InvalidTimeRejectedBeforeCalls ==
  (/\ IsZoom /\ req.method = "POST" /\ FieldsPresent /\ env = EnvVars(handler)
   /\ ~IsFinite(DateGetTime(req.sessionTimeSelected)))
  => (calls = <<>> /\ (pc = "done" => res.status = 400))

\* C2: when the best match is more than 6 hours from the target the Zoom
\* handler answers 400 and issues no registration call
C2_FarMatchRejected ==
  (IsZoom /\ Matched /\ bestOccurrence # 0 /\ Gt(bestDiff, Num(MAX_DIFF_MS)))
  => (~HasCall("register") /\ pc = "done" /\ res.status = 400)

\* C3: a request whose method is not POST is answered 405 by each of the
\* three handlers and no upstream call is made for it
C3_NonPostRejected ==
  req.method # "POST"
  => (calls = <<>> /\ pc \in {"start", "done"} /\ (pc = "done" => res.status = 405))

C3_Witness == req.method = "GET" /\ handler = "zoho" /\ pc = "done" /\ res.status = 405

\* C4: with a parsable target and only parsable start times the selected
\* occurrence is the first one of the list at the least absolute distance
\* from the target, bestDiff is that distance, and at most one registration
\* call, scoped to at most that one occurrence, is made
C4_ClosestFirstSelected ==
  (IsZoom /\ Matched /\ IsFinite(targetTime) /\ \A i \in 1..Len(occurrences) : Parsable(occurrences[i]))
  => /\ bestOccurrence = ArgMinFirst(occurrences, targetTime)
     /\ bestOccurrence # 0 => bestDiff = Num(Distance(occurrences[bestOccurrence], targetTime))
     /\ Cardinality({i \in 1..Len(calls) : calls[i].to = "register"}) <= 1

C4_Witness ==
  /\ Matched /\ pc = "done" /\ res.status = 200
  /\ Len(occurrences) = 3
  /\ occurrences[1].start_time = "2024-05-02T10:00:00Z"
  /\ occurrences[2].start_time = "2024-05-01T10:01:00Z"
  /\ occurrences[3].start_time = "2024-05-01T09:59:00Z"
  /\ bestOccurrence = 2

\* C5: an occurrence with an unparsable start time is never the selected
\* one, and the selection, its distance and the guardrail's verdict are what
\* they are for the list without the unparsable entries
C5_UnparsableSkipped ==
  (IsZoom /\ Matched)
  => LET kept == RemoveUnparsable(occurrences)
         ref == IF IsFinite(targetTime) THEN ArgMinFirst(kept, targetTime) ELSE 0
     IN /\ bestOccurrence # 0 => Parsable(occurrences[bestOccurrence])
        /\ At(occurrences, bestOccurrence) = At(kept, ref)
        /\ bestDiff = (IF ref = 0 THEN Infinity ELSE Num(Distance(kept[ref], targetTime)))
        /\ (pc = "done" /\ res.status = 400) => (ref # 0 /\ Distance(kept[ref], targetTime) > MAX_DIFF_MS)
        /\ (pc = "done" /\ res.status = 500) => calls[Len(calls)].to = "register"

C5_Witness ==
  /\ handler = "static" /\ Matched /\ pc = "done" /\ res.status = 200
  /\ Len(occurrences) = 2
  /\ ~Parsable(occurrences[1])
  /\ Parsable(occurrences[2])
  /\ bestOccurrence = 2

\* C6: a Zoom request that ends in a failure response has created no
\* registrant at the provider
C6_NoRegistrantOnFailure ==
  (IsZoom /\ pc = "done" /\ ~res.success) => ~RegistrantCreated

ExpectedCalls ==
  IF handler = "oauth" THEN <<"token", "meeting", "register">> ELSE <<"meeting", "register">>

C7_Order ==
  IsZoom
  => /\ Len(calls) <= Len(ExpectedCalls)
     /\ \A i \in 1..Len(calls) : calls[i].to = ExpectedCalls[i]
     /\ \A i \in 1..(Len(calls) - 1) : calls[i].result = "ok"
     /\ res.status # 0 => (pc = "done" /\ \A i \in 1..Len(calls) : calls[i].result # "pending")

\* C7: the Zoom pipeline issues token, meeting fetch, registration in this
\* order (the static-token variant from the meeting fetch), each at most
\* once, a call only after the one before it returned success, and none
\* once the response is sent
C7_StrictSequence ==
  /\ []C7_Order
  /\ [][res.status # 0 => calls' = calls]_vars

C7_Witness ==
  /\ handler = "oauth" /\ pc = "done" /\ res.status = 200
  /\ Len(calls) = 3
  /\ calls[3].to = "register"

\* C8: a POST to the Zoom handler with fullName, email or
\* sessionTimeSelected missing or empty, a request without a body included,
\* is answered 400 with the 'Missing required fields' error whatever the
\* configuration, and no upstream call is made
C8_MissingFieldsRejected ==
  (IsZoom /\ req.method = "POST" /\ ~FieldsPresent)
  => (calls = <<>> /\ pc \in {"start", "done"}
      /\ (pc = "done" => (res.status = 400 /\ ~res.success /\ res.error = MissingFields)))

\* positions where a maximal run of non-whitespace characters starts and ends
TokenStarts(s) == {i \in 1..Len(s) : s[i] \notin WhiteSpace /\ (i = 1 \/ s[i - 1] \in WhiteSpace)}
TokenEnds(s) == {i \in 1..Len(s) : s[i] \notin WhiteSpace /\ (i = Len(s) \/ s[i + 1] \in WhiteSpace)}

RECURSIVE Ascending(_)
Ascending(S) ==
  IF S = {} THEN <<>>
  ELSE LET m == CHOOSE x \in S : \A y \in S : x <= y IN <<m>> \o Ascending(S \ {m})

\* the whitespace-separated tokens of s
Tokens(s) ==
  LET b == Ascending(TokenStarts(s))
      e == Ascending(TokenEnds(s))
  IN [k \in 1..Len(b) |-> SubSeq(s, b[k], e[k])]

RECURSIVE SingleSpaced(_)
SingleSpaced(ts) ==
  IF Len(ts) = 0 THEN <<>>
  ELSE IF Len(ts) = 1 THEN ts[1]
  ELSE SingleSpaced(SubSeq(ts, 1, Len(ts) - 1)) \o <<" ">> \o ts[Len(ts)]

\* no whitespace at either end, none but single spaces inside
CleanName(n) ==
  /\ \A i \in 1..Len(n) : n[i] # "\t"
  /\ n # <<>> => (n[1] # " " /\ n[Len(n)] # " ")
  /\ \A i \in 1..(Len(n) - 1) : ~(n[i] = " " /\ n[i + 1] = " ")

HexValue(a, b) ==
  CASE <<a, b>> = <<"2", "6">> -> "&"
    [] <<a, b>> = <<"3", "D">> -> "="
    [] <<a, b>> = <<"2", "0">> -> " "
    [] OTHER -> "?"

\* the value the provider reads from the query string: percent-decoded, up
\* to the next "&"
RECURSIVE QueryValue(_)
QueryValue(q) ==
  IF q = <<>> \/ Head(q) = "&" THEN <<>>
  ELSE IF Head(q) = "%" /\ Len(q) >= 3 THEN <<HexValue(q[2], q[3])>> \o QueryValue(SubSeq(q, 4, Len(q)))
  ELSE <<Head(q)>> \o QueryValue(Tail(q))

====
